---- MODULE Spec2Model ----
(***************************************************************************)
(* Model of the trends pipeline of backend/src/trends/graph.py:            *)
(* collect_sources -> screen_sources -> review_lookback -> (collect |      *)
(* evaluate_sources) -> store_results, with the fair selector              *)
(* _select_items_round_robin and the quota walk of evaluate_sources.       *)
(*                                                                         *)
(* Text is modelled as a sequence of one-character strings, so that the    *)
(* normalisations of graph.py are computed and not assumed.                *)
(***************************************************************************)
EXTENDS Integers, Sequences, FiniteSets, TLC

\* ------------------------------------------------------------------------
\* Bounds of the model (not program constants).
\* ------------------------------------------------------------------------
\* Longest candidate list one source key holds in the selector's inputs.
MaxLen == 2

\* Largest DEFAULT_LOOKBACK_DAYS and MAX_LOOKBACK_DAYS of a run.
MaxLookback == 2

\* Events the environment may cause in a run: each failed call and each
\* candidate, feed or entry a call delivers is one event.
MaxEvents == 4

\* ------------------------------------------------------------------------
\* Python values
\* ------------------------------------------------------------------------
\* Optional[datetime]: None is -1, datetime.min is 0, real dates are >= 1.
None == -1
DatetimeMin == 0

Range(s) == {s[i] : i \in 1..Len(s)}

Min2(a, b) == IF a <= b THEN a ELSE b
Max2(a, b) == IF a >= b THEN a ELSE b

\* str.lower() on the characters the model uses.
Lower(ch) ==
    CASE ch = "A" -> "a"
      [] ch = "B" -> "b"
      [] ch = "U" -> "u"
      [] OTHER -> ch

\* str.isalnum() / str.isspace() on the characters the model uses.
IsAlnum(ch) == ch \in {"a", "b", "u", "v", "A", "B", "U", "1", "2"}
IsSpace(ch) == ch = " "

MapLower(s) == [i \in 1..Len(s) |-> Lower(s[i])]

RECURSIVE LStrip(_)
LStrip(s) == IF s # <<>> /\ IsSpace(Head(s)) THEN LStrip(Tail(s)) ELSE s

RECURSIVE RStrip(_)
RStrip(s) ==
    IF s # <<>> /\ IsSpace(s[Len(s)]) THEN RStrip(SubSeq(s, 1, Len(s) - 1)) ELSE s

\* str.strip()
Strip(s) == RStrip(LStrip(s))

\* The part of s before the first occurrence of ch (all of s if there is none).
RECURSIVE Before(_, _)
Before(s, stops) ==
    IF s = <<>> \/ Head(s) \in stops THEN <<>> ELSE <<Head(s)>> \o Before(Tail(s), stops)

\* graph.py _normalize_title: lower, keep alnum and space, strip.
_normalize_title(title) ==
    Strip(SelectSeq(MapLower(title), LAMBDA ch : IsAlnum(ch) \/ IsSpace(ch)))

\* graph.py _normalize_url: strip, lower, drop the fragment, drop one trailing "/".
_normalize_url(url) ==
    IF url = <<>> THEN <<>>
    ELSE LET trimmed == Before(MapLower(Strip(url)), {"#"})
         IN  IF trimmed # <<>> /\ trimmed[Len(trimmed)] = "/"
             THEN SubSeq(trimmed, 1, Len(trimmed) - 1)
             ELSE trimmed

\* urlparse(url).netloc: what follows "//" up to the next "/", "?" or "#".
\* A URL is <<scheme, "//", host characters..., "/", path...>>; "//" is one token.
Netloc(url) ==
    IF Len(url) >= 2 /\ url[2] = "//" THEN Before(SubSeq(url, 3, Len(url)), {"/", "?", "#"})
    ELSE IF Len(url) >= 1 /\ url[1] = "//" THEN Before(Tail(url), {"/", "?", "#"})
    ELSE <<>>

\* graph.py _source_key
_source_key(url) ==
    IF url = <<>> THEN <<>>
    ELSE LET domain == MapLower(Netloc(url))
         IN  IF domain # <<>> THEN domain ELSE MapLower(Strip(url))

\* ------------------------------------------------------------------------
\* _select_items_round_robin (graph.py 66-143)
\* ------------------------------------------------------------------------
\* items_by_source.get(key): the list, or the empty list for a missing key.
DictGet(d, key) == IF key \in DOMAIN d THEN d[key] ELSE <<>>

\* line 77: the keys of source_order that hold a non-empty list, in order.
available_sources(items_by_source, source_order) ==
    SelectSeq(source_order, LAMBDA key : DictGet(items_by_source, key) # <<>>)

\* Mutant of EffectiveMaxPerSource: the cap is used as given.
EffectiveMaxPerSource_AsGiven(max_items_per_source, max_items) == max_items_per_source

\* lines 81-82: a cap of zero or less means "no cap below max_items".
EffectiveMaxPerSource(max_items_per_source, max_items) ==
    IF max_items_per_source <= 0 THEN max_items ELSE max_items_per_source

\* line 88
target_unique(min_unique_domains, n_available, max_items) ==
    Min2(Min2(Max2(min_unique_domains, 0), n_available), max_items)

\* Mutant of IsDuplicate: only the URL key is looked up.
IsDuplicate_UrlOnly(title_key, url_key, seen_titles, seen_urls) ==
    url_key # <<>> /\ url_key \in seen_urls

\* line 99: the item's title or URL key was already seen.
IsDuplicate(title_key, url_key, seen_titles, seen_urls) ==
    \/ (title_key # <<>> /\ title_key \in seen_titles)
    \/ (url_key # <<>> /\ url_key \in seen_urls)

\* Mutant of SourceCapped: the cap is tested one selection too late.
SourceCapped_OffByOne(count, cap) == count > cap

\* lines 115 and 132
SourceCapped(count, cap) == count >= cap

\* lines 90-106: advance the source's index to its next unseen item; the result
\* holds the updated local state and the item as a list of zero or one element.
RECURSIVE next_item(_, _, _)
next_item(s, items, source_key) ==
    LET idx == s.source_indices[source_key]
    IN  IF idx >= Len(items) THEN [s |-> s, item |-> <<>>]
        ELSE LET item == items[idx + 1]
                 s1 == [s EXCEPT !.source_indices[source_key] = idx + 1]
                 title_key == _normalize_title(item.title)
                 url_key == _normalize_url(item.url)
             IN  IF IsDuplicate(title_key, url_key, s1.seen_titles, s1.seen_urls)
                 THEN next_item(s1, items, source_key)
                 ELSE [s |-> [s1 EXCEPT
                                !.seen_titles = IF title_key # <<>> THEN @ \cup {title_key} ELSE @,
                                !.seen_urls = IF url_key # <<>> THEN @ \cup {url_key} ELSE @],
                       item |-> <<item>>]

\* The item is dropped and nothing is recorded.
Take_Nothing(s, source_key, item, diversity) == s

\* lines 120-123 and 137-139: record a selection.
Take(s, source_key, item, diversity) ==
    [s EXCEPT !.selected = Append(@, item),
              !.selected_from = Append(@, source_key),
              !.selected_counts[source_key] = @ + 1,
              !.unique_sources = IF diversity THEN @ \cup {source_key} ELSE @]

\* lines 110-123: one sweep of the diversity phase over available_sources[i..].
RECURSIVE DiversitySweep(_, _, _, _)
DiversitySweep(P, s, i, progress) ==
    IF i > Len(P.available) THEN [s |-> s, progress |-> progress]
    ELSE LET source_key == P.available[i]
         IN  IF Cardinality(s.unique_sources) >= P.target \/ Len(s.selected) >= P.max_items
             THEN [s |-> s, progress |-> progress]
             ELSE IF source_key \in s.unique_sources
             THEN DiversitySweep(P, s, i + 1, progress)
             ELSE IF SourceCapped(s.selected_counts[source_key], P.cap)
             THEN DiversitySweep(P, s, i + 1, progress)
             ELSE LET r == next_item(s, P.items_by_source[source_key], source_key)
                  IN  IF r.item = <<>>
                      THEN DiversitySweep(P, r.s, i + 1, progress)
                      ELSE DiversitySweep(P, Take(r.s, source_key, r.item[1], TRUE), i + 1, TRUE)

\* lines 108-125: the diversity phase.
RECURSIVE DiversityPhase(_, _)
DiversityPhase(P, s) ==
    IF ~(Cardinality(s.unique_sources) < P.target /\ Len(s.selected) < P.max_items) THEN s
    ELSE LET r == DiversitySweep(P, [s EXCEPT !.sweeps = @ + 1], 1, FALSE)
         IN  IF ~r.progress THEN r.s ELSE DiversityPhase(P, r.s)

\* lines 129-139: one sweep of the fill phase over available_sources[i..].
RECURSIVE FillSweep(_, _, _, _)
FillSweep(P, s, i, progress) ==
    IF i > Len(P.available) THEN [s |-> s, progress |-> progress]
    ELSE LET source_key == P.available[i]
         IN  IF Len(s.selected) >= P.max_items
             THEN [s |-> s, progress |-> progress]
             ELSE IF SourceCapped(s.selected_counts[source_key], P.cap)
             THEN FillSweep(P, s, i + 1, progress)
             ELSE LET r == next_item(s, P.items_by_source[source_key], source_key)
                  IN  IF r.item = <<>>
                      THEN FillSweep(P, r.s, i + 1, progress)
                      ELSE FillSweep(P, Take(r.s, source_key, r.item[1], FALSE), i + 1, TRUE)

\* lines 127-141: the fill phase.
RECURSIVE FillPhase(_, _)
FillPhase(P, s) ==
    IF ~(Len(s.selected) < P.max_items) THEN s
    ELSE LET r == FillSweep(P, [s EXCEPT !.sweeps = @ + 1], 1, FALSE)
         IN  IF ~r.progress THEN r.s ELSE FillPhase(P, r.s)

\* The selector's result when it selects nothing (lines 75-79).
SelectNothing(seen_titles, seen_urls) ==
    [selected |-> <<>>, selected_from |-> <<>>, seen_titles |-> seen_titles,
     seen_urls |-> seen_urls, sweeps |-> 0, source_indices |-> <<>>]

\* lines 66-143.  The result holds the returned list (selected), the source key
\* each returned item was taken from (selected_from), the seen sets as the call
\* leaves them (they are mutated in place), the number of sweeps started, and
\* how far each source's list was read (source_indices).
_select_items_round_robin(items_by_source, source_order, max_items, min_unique_domains, max_items_per_source, seen_titles, seen_urls) ==
    LET available == available_sources(items_by_source, source_order)
    IN  IF max_items <= 0 THEN SelectNothing(seen_titles, seen_urls)
        ELSE IF available = <<>> THEN SelectNothing(seen_titles, seen_urls)
        ELSE LET P == [items_by_source |-> items_by_source,
                       available |-> available,
                       max_items |-> max_items,
                       cap |-> EffectiveMaxPerSource(max_items_per_source, max_items),
                       target |-> target_unique(min_unique_domains, Len(available), max_items)]
                 s0 == [source_indices |-> [key \in Range(available) |-> 0],
                        selected_counts |-> [key \in Range(available) |-> 0],
                        selected |-> <<>>,
                        selected_from |-> <<>>,
                        unique_sources |-> {},
                        seen_titles |-> seen_titles,
                        seen_urls |-> seen_urls,
                        sweeps |-> 0]
                 s2 == FillPhase(P, DiversityPhase(P, s0))
             IN  [selected |-> s2.selected, selected_from |-> s2.selected_from,
                  seen_titles |-> s2.seen_titles, seen_urls |-> s2.seen_urls,
                  sweeps |-> s2.sweeps, source_indices |-> s2.source_indices]

\* ------------------------------------------------------------------------
\* Universe of texts and items
\* ------------------------------------------------------------------------
\* Raw titles: TitleAb and TitleAB normalise to the same key, TitleNone to "".
TitleAb == <<"A", "b">>
TitleAB == <<" ", "a", "B", "!">>
TitleB == <<"b">>
TitleNone == <<"!">>

\* Raw URLs: UrlU1 and UrlU1Slash normalise to the same key.
UrlU1 == <<"u", "1">>
UrlU1Slash == <<"U", "1", "/", "#", "b">>
UrlU2 == <<"u", "2">>
UrlV == <<"v">>
UrlNone == <<>>

\* schemas.py SourceItem (summary is not read by the pipeline's control flow).
SourceItem(title, url, published_at, source) ==
    [title |-> title, url |-> url, published_at |-> published_at, source |-> source]

SeqsUpTo(S, n) == UNION {[1..k -> S] : k \in 0..n}

\* ------------------------------------------------------------------------
\* Variables
\* ------------------------------------------------------------------------
VARIABLES
    pc,     \* the stage (or the call inside collect_sources) about to run
    cfg,    \* the configuration read from the environment (config.py)
    state,  \* the GraphState passed from stage to stage
    c,      \* the local variables of collect_sources while it runs
    calls,  \* history: the calls of this collect round; the failures, rounds and windows
            \* of the run; the number of items the last finished round returned
    fuel,   \* events the environment may still cause: a failure, a delivered element
    unit    \* one call of a function checked on its own: its arguments and its result

vars == <<pc, cfg, state, c, calls, fuel, unit>>

\* ------------------------------------------------------------------------
\* The environment: what the source tools may answer
\* ------------------------------------------------------------------------
\* agents.py build_experts
Experts == <<"Product Scout", "Research Analyst", "Infra Strategist">>

\* Candidates of search_sources (tools.py SourceCandidate: title, url).  SrcA and
\* SrcA2 lie on one domain, SrcB is a URL without a host, SrcNoUrl has no URL.
SrcA == [url |-> <<"h:", "//", "A", "/", "x">>, title |-> "SrcA"]
SrcA2 == [url |-> <<"h:", "//", "a">>, title |-> "SrcA2"]
SrcB == [url |-> <<"b">>, title |-> "SrcB"]
SrcNoUrl == [url |-> <<>>, title |-> "SrcE"]

SearchResults == {<<>>, <<SrcA>>, <<SrcA, SrcB>>, <<SrcA, SrcA2>>, <<SrcNoUrl, SrcB>>}

\* Feeds of discover_feeds (tools.py FeedCandidate: feed_url, title).
Feed1 == [feed_url |-> "f1", title |-> "Feed 1"]
Feed2 == [feed_url |-> "f2", title |-> "Feed 2"]
FeedNoUrl == [feed_url |-> "", title |-> "Feed 0"]

DiscoverResults == {<<>>, <<Feed1>>, <<Feed1, Feed2>>, <<FeedNoUrl, Feed2>>}

\* Entries a feed or page may hold: title, url, published_at.  EntryAb and
\* EntryAB share a normalized title, EntryAb and EntryB a normalized URL, and
\* EntryNone has neither key.
EntryAb == [title |-> TitleAb, url |-> UrlU1, published_at |-> 2]
EntryAB == [title |-> TitleAB, url |-> UrlU2, published_at |-> 1]
EntryB == [title |-> TitleB, url |-> UrlU1Slash, published_at |-> None]
EntryNone == [title |-> TitleNone, url |-> UrlNone, published_at |-> None]

\* What one fetch_feed or fetch_non_rss call may return.
EntryLists ==
    {<<>>, <<EntryAb>>, <<EntryAB>>, <<EntryB>>, <<EntryNone>>,
     <<EntryAb, EntryAB>>, <<EntryB, EntryAb>>, <<EntryNone, EntryNone>>, <<EntryAB, EntryB>>}

\* An answer of a tool: it raised, or it returned `value`.
Raised == [ok |-> FALSE, value |-> <<>>]
Returned(value) == [ok |-> TRUE, value |-> value]

\* The outcomes of a call: it returns one of `values`, or raises while the
\* environment has an event left.
Outcomes(values) == {Returned(v) : v \in values} \cup (IF fuel > 0 THEN {Raised} ELSE {})

\* The answers of a source tool: a list no longer than what the environment
\* may still deliver, or a failure.
Answers(values) == Outcomes({v \in values : Len(v) <= fuel})

Burn(answer) ==
    IF answer.ok THEN fuel - Len(answer.value) ELSE fuel - 1

\* ------------------------------------------------------------------------
\* collect_sources (graph.py 146-270)
\* ------------------------------------------------------------------------
\* lines 147-153: the locals of a fresh call.
NewFrame(errors) ==
    [items |-> <<>>, errors |-> errors, feed_urls |-> {}, seen_titles |-> {},
     seen_urls |-> {}, title_references |-> <<>>,
     expert |-> 1, sources |-> <<>>, ci |-> 0, feeds |-> <<>>, fi |-> 0, feed_count |-> 0,
     items_by_source |-> <<>>, source_order |-> <<>>,
     source_seen_titles |-> <<>>, source_seen_urls |-> <<>>]

IdleFrame == NewFrame(<<>>)

NoCalls ==
    [searched |-> {}, offered_sources |-> {}, discovered |-> {}, offered_feeds |-> {},
     fetched |-> {}, failed |-> {}, upserts |-> 0, rounds |-> 0, collected |-> {},
     returned |-> 0]

\* title_references.setdefault(title_key, set()).add(source)   (line 179)
AddReference(refs, title_key, source) ==
    IF title_key \in DOMAIN refs THEN [refs EXCEPT ![title_key] = @ \cup {source}]
    ELSE refs @@ (title_key :> {source})

\* lines 181-183: the source already holds an item with this title or URL.
SourceDuplicate(title_key, url_key, titles, urls) ==
    \/ (title_key # <<>> /\ title_key \in titles)
    \/ (url_key # <<>> /\ url_key \in urls)

\* lines 174-189
RECURSIVE ingest_results(_, _, _)
ingest_results(f, results, source_key) ==
    IF results = <<>> THEN f
    ELSE LET item == Head(results)
             title_key == _normalize_title(item.title)
             url_key == _normalize_url(item.url)
             f1 == IF title_key # <<>>
                   THEN [f EXCEPT !.title_references = AddReference(@, title_key, item.source)]
                   ELSE f
         IN  IF SourceDuplicate(title_key, url_key, f1.source_seen_titles[source_key],
                                f1.source_seen_urls[source_key])
             THEN ingest_results(f1, Tail(results), source_key)
             ELSE ingest_results(
                    [f1 EXCEPT
                       !.source_seen_titles[source_key] =
                           IF title_key # <<>> THEN @ \cup {title_key} ELSE @,
                       !.source_seen_urls[source_key] =
                           IF url_key # <<>> THEN @ \cup {url_key} ELSE @,
                       !.items_by_source[source_key] = Append(@, item)],
                    Tail(results), source_key)

\* tools.py fetch_feed 584-606 / fetch_non_rss: the entries as SourceItem dicts
\* carrying the source name the call was given.
AsItems(entries, source_name) ==
    [i \in 1..Len(entries) |->
        SourceItem(entries[i].title, entries[i].url, entries[i].published_at, source_name)]

\* line 224: candidate.get("title") or feed.get("title")
SourceName(candidate, feed) == IF candidate.title # "" THEN candidate.title ELSE feed.title

\* lines 192-197: the candidate has a URL and a source key.
ValidCandidate(candidate) == candidate.url # <<>> /\ _source_key(candidate.url) # <<>>

\* lines 191-197: the next candidate at or after `from` that is not skipped (0: none).
RECURSIVE NextCandidate(_, _)
NextCandidate(sources, from) ==
    IF from > Len(sources) THEN 0
    ELSE IF ValidCandidate(sources[from]) THEN from
    ELSE NextCandidate(sources, from + 1)

\* lines 214-217: the next feed at or after `from` that is fetched (0: none).
RECURSIVE NextFeed(_, _, _)
NextFeed(feeds, from, feed_urls) ==
    IF from > Len(feeds) THEN 0
    ELSE IF feeds[from].feed_url # "" /\ feeds[from].feed_url \notin feed_urls THEN from
    ELSE NextFeed(feeds, from + 1, feed_urls)

\* line 191 (loop step): on to the next candidate, or to the selection (line 256).
AfterCandidate(f) ==
    LET n == NextCandidate(f.sources, f.ci + 1)
    IN  IF n = 0 THEN [pc |-> "select", c |-> f]
        ELSE [pc |-> "discover", c |-> [f EXCEPT !.ci = n]]

\* line 233: after the feeds of a candidate, the non-RSS fallback or the next candidate.
AfterFeeds(f) ==
    IF f.feed_count = 0 /\ cfg.ALLOW_NON_RSS_SOURCES THEN [pc |-> "non_rss", c |-> f]
    ELSE AfterCandidate(f)

\* line 214 (loop step): on to the next feed of the candidate, or past the feeds.
AfterFetch(f) ==
    LET n == NextFeed(f.feeds, f.fi + 1, f.feed_urls)
    IN  IF n = 0 THEN AfterFeeds(f)
        ELSE [pc |-> "fetch_feed", c |-> [f EXCEPT !.fi = n]]

\* Mutant of Failed: the failure leaves no entry.
Failed_Silently(f, entry) == f

\* lines 169-172, 210-213, 229-231, 246-248: the except branch of a source call
\* appends an entry to errors.
Failed(f, entry) == [f EXCEPT !.errors = Append(@, entry)]

\* lines 146-155: collect_sources starts.
CollectBegin ==
    /\ pc = "collect"
    /\ c' = NewFrame(state.errors)
    /\ calls' = [NoCalls EXCEPT !.failed = calls.failed, !.upserts = calls.upserts,
                                !.rounds = Min2(calls.rounds + 1, MaxLookback + 1),
                                !.collected = calls.collected \cup {state.lookback_days},
                                !.returned = calls.returned]
    /\ pc' = "search"
    /\ UNCHANGED <<cfg, state, fuel, unit>>

\* lines 156-172: the per-expert locals and the search_sources call.
SearchSources ==
    /\ pc = "search"
    /\ \E answer \in Answers(SearchResults) :
          LET name == Experts[c.expert]
              f == [c EXCEPT
                      !.items_by_source = <<>>, !.source_order = <<>>,
                      !.source_seen_titles = <<>>, !.source_seen_urls = <<>>,
                      !.sources = answer.value, !.ci = 0,
                      !.feeds = <<>>, !.fi = 0, !.feed_count = 0]
              next == AfterCandidate(IF answer.ok THEN f
                                     ELSE Failed(f, <<"search_sources", name>>))
          IN  /\ c' = next.c
              /\ pc' = next.pc
              /\ fuel' = Burn(answer)
              /\ calls' = [calls EXCEPT
                             !.searched = @ \cup {name},
                             !.offered_sources = @ \cup
                                 {<<name, answer.value[i].url>> : i \in
                                     {j \in 1..Len(answer.value) : ValidCandidate(answer.value[j])}},
                             !.failed = IF answer.ok THEN @ ELSE @ \cup {<<"search_sources", name>>}]
    /\ UNCHANGED <<cfg, state, unit>>

\* lines 195-213: the candidate's source key is registered, discover_feeds is called.
DiscoverFeeds ==
    /\ pc = "discover"
    /\ \E answer \in Answers(DiscoverResults) :
          LET candidate == c.sources[c.ci]
              source_key == _source_key(candidate.url)
              known == source_key \in DOMAIN c.items_by_source
              f == [c EXCEPT
                      !.items_by_source = IF known THEN @ ELSE @ @@ (source_key :> <<>>),
                      !.source_order = IF known THEN @ ELSE Append(@, source_key),
                      !.source_seen_titles = IF known THEN @ ELSE @ @@ (source_key :> {}),
                      !.source_seen_urls = IF known THEN @ ELSE @ @@ (source_key :> {}),
                      !.feeds = answer.value, !.fi = 0, !.feed_count = 0]
              next == IF answer.ok THEN AfterFetch(f)
                      ELSE AfterCandidate(Failed(f, <<"discover_feeds", candidate.url>>))
          IN  /\ c' = next.c
              /\ pc' = next.pc
              /\ fuel' = Burn(answer)
              /\ calls' = [calls EXCEPT
                             !.discovered = @ \cup {<<Experts[c.expert], candidate.url>>},
                             !.offered_feeds = @ \cup
                                 {answer.value[i].feed_url : i \in
                                     {j \in 1..Len(answer.value) : answer.value[j].feed_url # ""}},
                             !.failed = IF answer.ok THEN @
                                        ELSE @ \cup {<<"discover_feeds", candidate.url>>}]
    /\ UNCHANGED <<cfg, state, unit>>

\* lines 215-231: one feed is fetched and its results ingested.
FetchFeed ==
    /\ pc = "fetch_feed"
    /\ \E answer \in Answers(EntryLists) :
          LET candidate == c.sources[c.ci]
              source_key == _source_key(candidate.url)
              feed == c.feeds[c.fi]
              f0 == [c EXCEPT !.feed_urls = @ \cup {feed.feed_url}]
              f == IF answer.ok
                   THEN ingest_results([f0 EXCEPT !.feed_count = @ + 1],
                                       AsItems(answer.value, SourceName(candidate, feed)),
                                       source_key)
                   ELSE Failed(f0, <<"fetch_feed", feed.feed_url>>)
              next == AfterFetch(f)
          IN  /\ c' = next.c
              /\ pc' = next.pc
              /\ fuel' = Burn(answer)
              /\ calls' = [calls EXCEPT
                             !.fetched = @ \cup {feed.feed_url},
                             !.failed = IF answer.ok THEN @
                                        ELSE @ \cup {<<"fetch_feed", feed.feed_url>>}]
    /\ UNCHANGED <<cfg, state, unit>>

\* lines 233-248: the non-RSS fallback of a candidate without a fetched feed.
FetchNonRss ==
    /\ pc = "non_rss"
    /\ \E answer \in Answers(EntryLists) :
          LET candidate == c.sources[c.ci]
              source_key == _source_key(candidate.url)
              f == IF answer.ok
                   THEN ingest_results(c, AsItems(answer.value, candidate.title), source_key)
                   ELSE Failed(c, <<"fetch_non_rss", candidate.url>>)
              next == AfterCandidate(f)
          IN  /\ c' = next.c
              /\ pc' = next.pc
              /\ fuel' = Burn(answer)
              /\ calls' = [calls EXCEPT
                             !.failed = IF answer.ok THEN @
                                        ELSE @ \cup {<<"fetch_non_rss", candidate.url>>}]
    /\ UNCHANGED <<cfg, state, unit>>

\* lines 256-265: the frame after the expert's selection r.
Selected(f, r) ==
    [f EXCEPT !.items = @ \o r.selected,
              !.seen_titles = r.seen_titles,
              !.seen_urls = r.seen_urls]

\* lines 256-270: the expert's selection; after the last expert the call returns
\* state.model_copy(update={raw_items, errors, title_references}).
SelectItems ==
    /\ pc = "select"
    /\ \E r \in {_select_items_round_robin(c.items_by_source, c.source_order,
                    cfg.MAX_ITEMS_PER_EXPERT, cfg.MIN_UNIQUE_DOMAINS,
                    cfg.MAX_ITEMS_PER_SOURCE, c.seen_titles, c.seen_urls)} :
          \E f \in {Selected(c, r)} :
             IF c.expert < Len(Experts)
             THEN /\ c' = [f EXCEPT !.expert = @ + 1]
                  /\ pc' = "search"
                  /\ UNCHANGED <<state, calls>>
             ELSE /\ state' = [state EXCEPT !.raw_items = f.items,
                                            !.errors = f.errors,
                                            !.title_references = f.title_references]
                  /\ calls' = [calls EXCEPT !.returned = Len(f.items)]
                  /\ c' = IdleFrame
                  /\ pc' = "screen"
    /\ UNCHANGED <<cfg, fuel, unit>>

\* ------------------------------------------------------------------------
\* screen_sources (graph.py 273-286)
\* ------------------------------------------------------------------------
\* The sub-list of s at the indices of `keep`, in order.
RECURSIVE Pick(_, _, _)
Pick(s, keep, i) ==
    IF i > Len(s) THEN <<>>
    ELSE (IF i \in keep THEN <<s[i]>> ELSE <<>>) \o Pick(s, keep, i + 1)

\* The restriction of a dict to the keys of `keys`.
Restrict(d, keys) == [k \in (DOMAIN d) \cap keys |-> d[k]]

\* lines 281-284: the references of the titles that survived screening.
filtered_refs(title_references, screened) ==
    Restrict(title_references, {_normalize_title(screened[i].title) : i \in 1..Len(screened)})

\* lines 273-286; screen_items (agents.py 345-381) keeps any sub-list, in order.
ScreenSources ==
    /\ pc = "screen"
    /\ IF state.raw_items = <<>> THEN UNCHANGED state
       ELSE \E keep \in SUBSET (1..Len(state.raw_items)) :
              LET screened == Pick(state.raw_items, keep, 1)
              IN  IF screened = <<>>
                  THEN state' = [state EXCEPT !.raw_items = <<>>]
                  ELSE state' = [state EXCEPT
                                   !.raw_items = screened,
                                   !.title_references = filtered_refs(@, screened)]
    /\ pc' = "review"
    /\ UNCHANGED <<cfg, c, calls, fuel, unit>>

\* ------------------------------------------------------------------------
\* review_lookback and should_expand (graph.py 289-310)
\* ------------------------------------------------------------------------
\* The window is widened and the errors collected so far are dropped.
review_lookback_ClearsErrors(s) ==
    [s EXCEPT !.lookback_days = Min2(@ + 1, s.max_lookback_days), !.errors = <<>>]

\* lines 289-304
review_lookback(s) ==
    IF Len(s.raw_items) >= s.target_trend_count THEN s
    ELSE IF s.lookback_days >= s.max_lookback_days THEN s
    ELSE LET new_lookback == Min2(s.lookback_days + cfg.LOOKBACK_STEP_DAYS, s.max_lookback_days)
         IN  IF new_lookback = s.lookback_days THEN s
             ELSE [s EXCEPT !.lookback_days = new_lookback,
                            !.lookback_history = Append(@, new_lookback)]

\* lines 307-310
should_expand(s) ==
    IF Len(s.raw_items) < s.target_trend_count /\ s.lookback_days < s.max_lookback_days
    THEN "collect"
    ELSE "evaluate"

\* The review node and the conditional edge that leaves it (lines 460, 467).
ReviewLookback ==
    /\ pc = "review"
    /\ state' = review_lookback(state)
    /\ pc' = should_expand(state')
    /\ UNCHANGED <<cfg, c, calls, fuel, unit>>

\* ------------------------------------------------------------------------
\* compute_trending_score (scoring.py 9-19), in units of 1/10000
\* ------------------------------------------------------------------------
\* datetime.utcnow(), in days.
Now == 3

\* The half-life in days; scoring.py imports it from config.py, which does not
\* define it, so the value is the one of the specification's example.
TREND_SCORE_HALF_LIFE_DAYS == 7

\* 10000 * math.log1p(references), rounded.
Log1p(references) ==
    CASE references = 0 -> 0
      [] references = 1 -> 6931
      [] references = 2 -> 10986
      [] references = 3 -> 13863
      [] references = 4 -> 16094
      [] references = 5 -> 17918
      [] OTHER -> 19459

\* 10000 * math.exp(-days_since / 7), rounded.
ExpDecay(days_since) ==
    CASE days_since = 0 -> 10000
      [] days_since = 1 -> 8669
      [] days_since = 2 -> 7515
      [] OTHER -> 6514

\* The reference count taken as it is given.
References_Unclamped(reference_count) == reference_count

\* scoring.py 11: max(reference_count, 0)
References(reference_count) == Max2(reference_count, 0)

\* The elapsed days taken as they are, negative for a date after now.
DaysSince_Unclamped(published_at) == IF published_at # None THEN Now - published_at ELSE 0

\* scoring.py 12-16: the elapsed days, 0 for a date after now or a missing date.
DaysSince(published_at) == IF published_at # None THEN Max2(Now - published_at, 0) ELSE 0

\* scoring.py 9-19
compute_trending_score(reference_count, published_at) ==
    LET references == References(reference_count)
        days_since == DaysSince(published_at)
    IN  (Log1p(references) * ExpDecay(days_since) + 5000) \div 10000

\* ------------------------------------------------------------------------
\* evaluate_sources (graph.py 313-410)
\* ------------------------------------------------------------------------
Categories == {"product", "research", "infra"}

\* The order sorted() gives the source names of the model.
NameOrder == <<"SrcA", "SrcA2", "SrcB", "SrcC">>

\* line 269: sorted(list(values))
SortedNames(names) == SelectSeq(NameOrder, LAMBDA n : n \in names)

\* lines 322-324: raw_items grouped by normalized title (the empty key included).
RECURSIVE GroupByTitle(_, _)
GroupByTitle(items, groups) ==
    IF items = <<>> THEN groups
    ELSE LET key == _normalize_title(Head(items).title)
         IN  GroupByTitle(Tail(items),
                 IF key \in DOMAIN groups
                 THEN [groups EXCEPT ![key] = Append(@, Head(items).source)]
                 ELSE groups @@ (key :> <<Head(items).source>>))

\* lines 318-324
title_groups(s) ==
    IF DOMAIN s.title_references # {}
    THEN [key \in DOMAIN s.title_references |-> SortedNames(s.title_references[key])]
    ELSE GroupByTitle(s.raw_items, <<>>)

\* line 329: item.published_at or datetime.min
PublishedKey(entry) ==
    IF entry.item.published_at = None THEN DatetimeMin ELSE entry.item.published_at

\* line 400
ScoreKey(trend) == trend.trending_score

\* Mutant of KeyOf: the keys are negated, so the sorts run smallest first.
KeyOf_Ascending(key, x) == 0 - (IF key = "published_at" THEN PublishedKey(x) ELSE ScoreKey(x))

\* The key= argument of the two sorted() calls of evaluate_sources.
KeyOf(key, x) == IF key = "published_at" THEN PublishedKey(x) ELSE ScoreKey(x)

\* sorted(seq, key=..., reverse=True): stable, largest key first.
RECURSIVE InsertDesc(_, _, _)
InsertDesc(sorted, x, key) ==
    IF sorted = <<>> THEN <<x>>
    ELSE IF KeyOf(key, Head(sorted)) >= KeyOf(key, x)
    THEN <<Head(sorted)>> \o InsertDesc(Tail(sorted), x, key)
    ELSE <<x>> \o sorted

RECURSIVE SortedDesc(_, _)
SortedDesc(seq, key) ==
    IF seq = <<>> THEN <<>>
    ELSE InsertDesc(SortedDesc(SubSeq(seq, 1, Len(seq) - 1), key), seq[Len(seq)], key)

\* The assessed entries left in the order evaluate_items returned them.
prioritized_Unsorted(assessed) == assessed

\* lines 327-331
prioritized(assessed) == SortedDesc(assessed, "published_at")

\* lines 333-340 (reference_cache is still empty while this loop runs).
RECURSIVE lookup_items(_, _, _)
lookup_items(entries, chosen, max_lookups) ==
    IF entries = <<>> \/ Len(chosen) >= max_lookups THEN chosen
    ELSE IF _normalize_url(Head(entries).item.url) = <<>>
    THEN lookup_items(Tail(entries), chosen, max_lookups)
    ELSE lookup_items(Tail(entries), Append(chosen, Head(entries).item), max_lookups)

\* The item's own source alone, whatever is recorded for its title.
SourceRefs_Own(groups, item) == <<item.source>>

\* lines 366 and 372: title_groups.get(key, [item.source]) if key else [item.source]
SourceRefs(groups, item) ==
    LET key == _normalize_title(item.title)
    IN  IF key # <<>> /\ key \in DOMAIN groups THEN groups[key] ELSE <<item.source>>

\* lines 359-367: one completed future; reference_cache[url_key] becomes the
\* count the lookup returned or, when it raised, the number of sources recorded
\* for the item's title.
CacheStore(cache, item, answer, groups) ==
    LET url_key == _normalize_url(item.url)
        count == IF answer.ok THEN answer.value ELSE Len(SourceRefs(groups, item))
    IN  IF url_key \in DOMAIN cache THEN [cache EXCEPT ![url_key] = count]
        ELSE cache @@ (url_key :> count)

\* lines 359-367: the cache after every lookup has completed.  The
\* lookups of a run have pairwise distinct URL keys (raw_items holds no URL key
\* twice), so the order in which they complete does not change the cache.
RECURSIVE reference_cache(_, _, _, _)
reference_cache(lookups, answers, groups, cache) ==
    IF lookups = <<>> THEN cache
    ELSE reference_cache(Tail(lookups), Tail(answers), groups,
             CacheStore(cache, Head(lookups), Head(answers), groups))

\* lines 370-374: reference_cache.get(url_key, len(source_refs))
ReferenceCount(item, groups, cache) ==
    LET url_key == _normalize_url(item.url)
    IN  IF url_key \in DOMAIN cache THEN cache[url_key]
        ELSE Len(SourceRefs(groups, item))

\* schemas.py 45-57: the fields TrendItem requires (none has a default).
TrendItemRequired ==
    {"id", "category", "title", "announcement", "url", "published_at", "source", "summary",
     "impact_score", "reference_count", "trending_score", "source_references"}

\* lines 378-390: the keyword arguments evaluate_sources passes to TrendItem.
TrendItemSupplied ==
    {"id", "category", "title", "publication", "url", "published_at", "source", "summary",
     "reference_count", "trending_score", "source_references"}

\* pydantic validation of TrendItem(**kwargs): every required field is given.
TrendItemValidates == TrendItemRequired \subseteq TrendItemSupplied

\* lines 369-391: the TrendItem built for one assessed entry.
TrendOf(entry, groups, cache) ==
    LET item == entry.item
        url_key == _normalize_url(item.url)
        source_refs == SourceRefs(groups, item)
        count == ReferenceCount(item, groups, cache)
    IN  [id |-> <<item.source, item.title>>,
         category |-> entry.category,
         title |-> item.title,
         url |-> item.url,
         published_at |-> IF item.published_at = None THEN Now ELSE item.published_at,
         source |-> item.source,
         reference_count |-> count,
         trending_score |-> compute_trending_score(count, item.published_at),
         source_references |-> source_refs]

\* line 395: _normalize_title(trend.title) or trend.id
DedupeKey(trend) ==
    IF _normalize_title(trend.title) # <<>>
    THEN [kind |-> "title", of |-> <<_normalize_title(trend.title)>>]
    ELSE [kind |-> "id", of |-> trend.id]

\* The later trend also replaces a kept one of the same score.
Replaces_OnTie(trend, existing) == trend.trending_score >= existing.trending_score

\* line 397: the later trend replaces the one already kept.
Replaces(trend, existing) == trend.trending_score > existing.trending_score

\* lines 393-398: deduped as the list of its values, in the dict's insertion order.
RECURSIVE Dedupe(_, _)
Dedupe(trends, deduped) ==
    IF trends = <<>> THEN deduped
    ELSE LET trend == Head(trends)
             at == {i \in 1..Len(deduped) : DedupeKey(deduped[i]) = DedupeKey(trend)}
         IN  Dedupe(Tail(trends),
                 IF at = {} THEN Append(deduped, trend)
                 ELSE [i \in 1..Len(deduped) |->
                          IF i \in at /\ Replaces(trend, deduped[i]) THEN trend ELSE deduped[i]])

\* line 400
sorted_trends(deduped) == SortedDesc(deduped, "trending_score")

\* Mutant of CategoryFull: the quota is tested one item too late.
CategoryFull_OffByOne(count, cap) == count > cap

\* line 404: the category already holds its quota.
CategoryFull(count, cap) == count >= cap

\* lines 401-407
RECURSIVE Limit(_, _, _, _)
Limit(trends, per_category_counts, limited, cap) ==
    IF trends = <<>> THEN limited
    ELSE LET trend == Head(trends)
         IN  IF CategoryFull(per_category_counts[trend.category], cap)
             THEN Limit(Tail(trends), per_category_counts, limited, cap)
             ELSE Limit(Tail(trends),
                        [per_category_counts EXCEPT ![trend.category] = @ + 1],
                        Append(limited, trend), cap)

\* lines 393-407: the quota walk over the scored trends.
QuotaWalk(trends, cap) ==
    Limit(sorted_trends(Dedupe(trends, <<>>)), [cat \in Categories |-> 0], <<>>, cap)

\* Largest count a reference lookup returns.
MaxCount == 2

\* lines 313-410.  evaluate_items (agents.py 295-342) gives each item a category;
\* each count_references call returns a count or raises.  Building the first
\* TrendItem raises pydantic's ValidationError when a required field is missing.
EvaluateSources ==
    /\ pc = "evaluate"
    /\ \E categories \in [1..Len(state.raw_items) -> Categories] :
          LET assessed == [i \in 1..Len(state.raw_items) |->
                              [item |-> state.raw_items[i], category |-> categories[i]]]
              groups == title_groups(state)
              lookups == lookup_items(prioritized(assessed), <<>>, cfg.MAX_REFERENCE_LOOKUPS)
          IN  \E answers \in [1..Len(lookups) -> Outcomes(0..MaxCount)] :
                LET cache == reference_cache(lookups, answers, groups, <<>>)
                    trends == [i \in 1..Len(assessed) |-> TrendOf(assessed[i], groups, cache)]
                    nfail == Cardinality({i \in 1..Len(lookups) : ~answers[i].ok})
                IN  /\ nfail <= fuel
                    /\ fuel' = fuel - nfail
                    /\ calls' = [calls EXCEPT
                                   !.failed = @ \cup {<<"count_references", lookups[i].url>> :
                                                        i \in {j \in 1..Len(lookups) : ~answers[j].ok}}]
                    /\ IF assessed # <<>> /\ ~TrendItemValidates
                       THEN /\ pc' = "raised"
                            /\ UNCHANGED state
                       ELSE /\ pc' = "store"
                            /\ state' = [state EXCEPT !.assessed_items =
                                            QuotaWalk(trends, cfg.MAX_TRENDS_PER_CATEGORY)]
    /\ UNCHANGED <<cfg, c, unit>>

\* ------------------------------------------------------------------------
\* store_results (graph.py 413-452)
\* ------------------------------------------------------------------------
\* lines 429-432: the TrendItem attributes add_entry reads.
TrendItemRead == {"title", "url", "publication", "published_at", "trending_score", "category"}

\* lines 415-417: the three maps, each the list of its keys in insertion order.
EmptyMaps == [products |-> <<>>, research |-> <<>>, infra |-> <<>>]

\* lines 436-442: the map an item goes to.
TargetOf(item) ==
    IF item.category = "product" THEN "products"
    ELSE IF item.category = "infra" THEN "infra"
    ELSE "research"

\* line 425: f"{key} ({suffix})"
Suffixed(key, suffix) == key \o <<" ", "(", ToString(suffix), ")">>

\* lines 423-425: the first suffix whose key the map does not hold.
RECURSIVE FreeSuffix(_, _, _)
FreeSuffix(key, target, suffix) ==
    IF Suffixed(key, suffix) \in Range(target)
    THEN FreeSuffix(key, target, suffix + 1)
    ELSE suffix

\* lines 421-426: the key an item is stored under.
EntryKey(title, target) ==
    IF title \in Range(target) THEN Suffixed(title, FreeSuffix(title, target, 2)) ELSE title

\* Mutant of SkipsUpsert: the upsert is made for an empty result too.
SkipsUpsert_Never(s) == FALSE

\* line 414 and 450-451: without assessed items nothing is stored.
SkipsUpsert(s) == s.assessed_items = <<>>

\* lines 419-433 and 435-442: add_entry over the items by falling score; an
\* item whose map is full is passed over, and building an entry reads the
\* item's attributes, which raises AttributeError for one the schema lacks.
RECURSIVE add_entries(_, _, _)
add_entries(items, maps, cap) ==
    IF items = <<>> THEN [raised |-> FALSE, maps |-> maps]
    ELSE LET item == Head(items)
             target == maps[TargetOf(item)]
         IN  IF Len(target) >= cap
             THEN add_entries(Tail(items), maps, cap)
             ELSE IF ~(TrendItemRead \subseteq TrendItemRequired)
             THEN [raised |-> TRUE, maps |-> maps]
             ELSE add_entries(Tail(items),
                              [maps EXCEPT ![TargetOf(item)] =
                                  Append(target, EntryKey(item.title, target))],
                              cap)

\* lines 413-452: nothing is stored without assessed items; otherwise the maps
\* are filled and upsert_daily_record is called once, and may raise.
StoreResults ==
    /\ pc = "store"
    /\ IF SkipsUpsert(state)
       THEN pc' = "done" /\ UNCHANGED <<calls, fuel>>
       ELSE \E filled \in {add_entries(sorted_trends(state.assessed_items), EmptyMaps,
                                       cfg.MAX_TRENDS_PER_CATEGORY)} :
              IF filled.raised
              THEN pc' = "raised" /\ UNCHANGED <<calls, fuel>>
              ELSE \E answer \in Outcomes({<<>>}) :
                     /\ calls' = [calls EXCEPT
                                    !.upserts = @ + 1,
                                    !.failed = IF answer.ok THEN @
                                               ELSE @ \cup {<<"upsert_daily_record",
                                                               state.run_date>>}]
                     /\ fuel' = Burn(answer)
                     /\ pc' = IF answer.ok THEN "done" ELSE "raised"
    /\ UNCHANGED <<cfg, state, c, unit>>

\* ------------------------------------------------------------------------
\* The pipeline (build_graph, graph.py 455-471; run_daily, 474-499)
\* ------------------------------------------------------------------------
\* schemas.py 67-76
GraphState(lookback_days, target_trend_count, max_lookback_days) ==
    [run_date |-> "2026-01-01",
     lookback_days |-> lookback_days,
     target_trend_count |-> target_trend_count,
     max_lookback_days |-> max_lookback_days,
     lookback_history |-> <<>>,
     raw_items |-> <<>>,
     assessed_items |-> <<>>,
     title_references |-> <<>>,
     errors |-> <<>>]

\* config.py 37-57: the values of the environment, small ones drawn here.
Configs ==
    [LOOKBACK_STEP_DAYS : 0..(MaxLookback - 1),
     ALLOW_NON_RSS_SOURCES : BOOLEAN,
     MAX_ITEMS_PER_EXPERT : {2},
     MIN_UNIQUE_DOMAINS : {2},
     MAX_ITEMS_PER_SOURCE : {1},
     MAX_TRENDS_PER_CATEGORY : {1},
     MAX_REFERENCE_LOOKUPS : {1},
     TARGET_TRENDS : {1},
     OVERWRITE_EXECUTION : {TRUE},
     DEFAULT_LOOKBACK_DAYS : 1..MaxLookback,
     MAX_LOOKBACK_DAYS : 1..MaxLookback]

IdleCfg ==
    [LOOKBACK_STEP_DAYS |-> 0, ALLOW_NON_RSS_SOURCES |-> FALSE, MAX_ITEMS_PER_EXPERT |-> 0,
     MIN_UNIQUE_DOMAINS |-> 0, MAX_ITEMS_PER_SOURCE |-> 0, MAX_TRENDS_PER_CATEGORY |-> 0,
     MAX_REFERENCE_LOOKUPS |-> 0, TARGET_TRENDS |-> 0, OVERWRITE_EXECUTION |-> TRUE,
     DEFAULT_LOOKBACK_DAYS |-> 0, MAX_LOOKBACK_DAYS |-> 0]

IdleState == GraphState(0, 0, 0)

IdleUnit == [stage |-> "idle"]

\* run_daily 476 and 488-493: the state graph.invoke starts from
\* (lookback_days or DEFAULT_LOOKBACK_DAYS, called without an argument).
InitialState(k) ==
    GraphState(k.DEFAULT_LOOKBACK_DAYS,
               Max2(k.TARGET_TRENDS, k.MAX_TRENDS_PER_CATEGORY * 3),
               k.MAX_LOOKBACK_DAYS)

\* run_daily 474-495 with OVERWRITE_EXECUTION at its default: the graph is invoked.
Init ==
    /\ pc = "collect"
    /\ cfg \in Configs
    /\ state = InitialState(cfg)
    /\ c = IdleFrame
    /\ calls = NoCalls
    /\ fuel = MaxEvents
    /\ unit = IdleUnit

Next ==
    \/ CollectBegin
    \/ SearchSources
    \/ DiscoverFeeds
    \/ FetchFeed
    \/ FetchNonRss
    \/ SelectItems
    \/ ScreenSources
    \/ ReviewLookback
    \/ EvaluateSources
    \/ StoreResults

Spec == Init /\ [][Next]_vars

\* ------------------------------------------------------------------------
\* run_daily (graph.py 474-499) with OVERWRITE_EXECUTION on or off and a daily
\* record that exists or not
\* ------------------------------------------------------------------------
\* One configuration of the pipeline, its window growing in two steps, with
\* either value of OVERWRITE_EXECUTION.
DailyConfigs ==
    {[k EXCEPT !.OVERWRITE_EXECUTION = overwrite, !.MAX_LOOKBACK_DAYS = MaxLookback + 1] :
        k \in {k \in Configs : /\ k.ALLOW_NON_RSS_SOURCES
                               /\ k.LOOKBACK_STEP_DAYS = 1
                               /\ k.DEFAULT_LOOKBACK_DAYS = 1
                               /\ k.MAX_LOOKBACK_DAYS = MaxLookback},
        overwrite \in BOOLEAN}

\* run_daily is called; supabase may hold a record of the run date.
InitDaily ==
    /\ pc = "run_daily"
    /\ cfg \in DailyConfigs
    /\ state = IdleState
    /\ c = IdleFrame
    /\ calls = NoCalls
    /\ fuel = MaxEvents
    /\ \E exists \in BOOLEAN : unit = [stage |-> "run_daily", in |-> [exists |-> exists]]

\* The graph is invoked whatever record exists.
SkipExecution_Never(k, exists) == FALSE

\* line 478: not OVERWRITE_EXECUTION and exists
SkipExecution(k, exists) == ~k.OVERWRITE_EXECUTION /\ exists

\* lines 479-486: the state returned without running the graph.
SkippedState(k) ==
    [InitialState(k) EXCEPT !.errors = << <<"Daily record exists", "2026-01-01">> >>]

\* lines 474-495: daily_record_exists (supabase_store.py 10-17) answers or
\* raises; the run is skipped, or the graph is invoked at its entry point.
RunDaily ==
    /\ pc = "run_daily"
    /\ \E answer \in Outcomes({unit.in.exists}) :
          /\ fuel' = IF answer.ok THEN fuel ELSE fuel - 1
          /\ IF ~answer.ok
             THEN pc' = "raised" /\ UNCHANGED state
             ELSE IF SkipExecution(cfg, answer.value)
             THEN pc' = "done" /\ state' = SkippedState(cfg)
             ELSE pc' = "collect" /\ state' = InitialState(cfg)
    /\ UNCHANGED <<cfg, c, calls, unit>>

NextDaily == RunDaily \/ Next

SpecDaily == InitDaily /\ [][NextDaily]_vars


\* ------------------------------------------------------------------------
\* SpecSelect: _select_items_round_robin applied to bounded inputs
\* ------------------------------------------------------------------------
SelKeys == {<<"a">>, <<"b">>, <<"c">>}

SelItems ==
    {SourceItem(TitleAb, UrlU1, None, "SrcA"),
     SourceItem(TitleAB, UrlU2, None, "SrcB"),
     SourceItem(TitleB, UrlU1Slash, None, "SrcA"),
     SourceItem(TitleNone, UrlNone, None, "SrcB")}

SelShort == {<<SourceItem(TitleB, UrlV, None, "SrcC")>>}

\* source_order as collect_sources builds it (no key twice), also naming a key
\* that items_by_source does not hold.
SelOrders == {<<<<"a">>, <<"b">>, <<"c">>>>, <<<<"c">>, <<"missing">>, <<"b">>, <<"a">>>>}

SelNoResult == SelectNothing({}, {})

SelInputs ==
    [items_by_source : {[key \in SelKeys |->
                            IF key = <<"a">> THEN la ELSE IF key = <<"b">> THEN lb ELSE lc] :
                        la \in SeqsUpTo(SelItems, MaxLen),
                        lb \in SeqsUpTo(SelItems, MaxLen),
                        lc \in SelShort},
     source_order : SelOrders,
     max_items : -1..3,
     min_unique_domains : {-1, 1, 2},
     max_items_per_source : -1..2,
     seen_titles : {{}, {_normalize_title(TitleAb)}},
     seen_urls : {{}}]


InitSelect ==
    /\ pc = "select"
    /\ cfg = IdleCfg
    /\ state = IdleState
    /\ c = IdleFrame
    /\ calls = NoCalls
    /\ fuel = 0
    /\ \E in \in SelInputs : unit = [stage |-> "input", in |-> in, out |-> SelNoResult]

SelectCall ==
    /\ pc = "select"
    /\ unit.stage = "input"
    /\ unit' = [unit EXCEPT
                 !.stage = "output",
                 !.out = _select_items_round_robin(
                            unit.in.items_by_source, unit.in.source_order, unit.in.max_items,
                            unit.in.min_unique_domains, unit.in.max_items_per_source,
                            unit.in.seen_titles, unit.in.seen_urls)]
    /\ UNCHANGED <<pc, cfg, state, c, calls, fuel>>

NextSelect == SelectCall

SpecSelect == InitSelect /\ [][NextSelect]_vars

\* ------------------------------------------------------------------------
\* SpecQuota: the dedupe, sort and cap of evaluate_sources (lines 393-407)
\* applied to bounded lists of scored trends
\* ------------------------------------------------------------------------
\* Longest list of scored trends.
MaxTrends == 3

\* A raw title that, like TitleNone, normalises to the empty key.
TitleQ == <<"?">>

\* schemas.py 45-57, the fields lines 393-407 read; id is _hash_id of
\* "source:title" (line 379).
TrendItem(title, source, category, trending_score) ==
    [id |-> <<source, title>>, category |-> category, title |-> title,
     source |-> source, trending_score |-> trending_score]

QuotaTrends ==
    {TrendItem(title, "SrcA", category, score) :
        title \in {TitleAb, TitleAB, TitleNone, TitleQ},
        category \in {"product", "research"},
        score \in {1, 2}}

QuotaInputs == [trends : SeqsUpTo(QuotaTrends, MaxTrends), cap : -1..2]

InitQuota ==
    /\ pc = "quota"
    /\ cfg = IdleCfg
    /\ state = IdleState
    /\ c = IdleFrame
    /\ calls = NoCalls
    /\ fuel = 0
    /\ \E in \in QuotaInputs :
          unit = [stage |-> "input", in |-> in, deduped |-> <<>>, out |-> <<>>]

QuotaCall ==
    /\ pc = "quota"
    /\ unit.stage = "input"
    /\ unit' = [unit EXCEPT !.stage = "output",
                            !.deduped = Dedupe(unit.in.trends, <<>>),
                            !.out = QuotaWalk(unit.in.trends, unit.in.cap)]
    /\ UNCHANGED <<pc, cfg, state, c, calls, fuel>>

NextQuota == QuotaCall

SpecQuota == InitQuota /\ [][NextQuota]_vars

\* ------------------------------------------------------------------------
\* Claims about _select_items_round_robin (checked under SpecSelect)
\* ------------------------------------------------------------------------
\* The number of returned items taken from source key `key`.
SelCount(key) ==
    Cardinality({i \in 1..Len(unit.out.selected_from) : unit.out.selected_from[i] = key})

SelReturned == pc = "select" /\ unit.stage = "output"

\* C2 as stated: the returned list has at most max_items items and no source
\* key contributes more than max_items_per_source of them, for every value of
\* the parameters, zero and negative ones included.
C2_AsStated ==
    SelReturned =>
        /\ Len(unit.out.selected) <= unit.in.max_items
        /\ \A key \in Range(unit.in.source_order) : SelCount(key) <= unit.in.max_items_per_source

\* C2 amended: the returned list has at most max(max_items, 0) items, and no
\* source key contributes more than max_items_per_source of them when that cap
\* is positive (a cap of zero or less sets no limit per source).
C2_SelectorBound ==
    SelReturned =>
        /\ Len(unit.out.selected) <= (IF unit.in.max_items > 0 THEN unit.in.max_items ELSE 0)
        /\ unit.in.max_items_per_source > 0 =>
              \A key \in Range(unit.in.source_order) :
                  SelCount(key) <= unit.in.max_items_per_source

\* C2 witness: a call that fills its budget, with one source held at a positive
\* cap while it still had candidates.
C2_Witness ==
    /\ SelReturned
    /\ unit.in.max_items_per_source = 1
    /\ Len(unit.out.selected) = unit.in.max_items
    /\ unit.in.max_items = 3
    /\ \E key \in SelKeys : SelCount(key) = 1 /\ Len(unit.in.items_by_source[key]) = 2

\* An item of the call's input that neither seen set holds.
SelUnseen(item) ==
    ~ \/ (_normalize_title(item.title) # <<>> /\ _normalize_title(item.title) \in unit.in.seen_titles)
      \/ (_normalize_url(item.url) # <<>> /\ _normalize_url(item.url) \in unit.in.seen_urls)

\* Two items share a non-empty normalized title or a non-empty normalized URL.
SameKey(i1, i2) ==
    \/ (_normalize_title(i1.title) # <<>> /\ _normalize_title(i1.title) = _normalize_title(i2.title))
    \/ (_normalize_url(i1.url) # <<>> /\ _normalize_url(i1.url) = _normalize_url(i2.url))

SelSources == Range(unit.in.source_order) \cap DOMAIN unit.in.items_by_source

\* The source holds an item that is available when the call starts.
SelHoldsAvailable(key) ==
    \E item \in Range(unit.in.items_by_source[key]) : SelUnseen(item)

\* The source holds an available item that no other source can use up.
SelHoldsOwn(key) ==
    \E item \in Range(unit.in.items_by_source[key]) :
        /\ SelUnseen(item)
        /\ \A other \in SelSources \ {key} :
              \A item2 \in Range(unit.in.items_by_source[other]) : ~SameKey(item, item2)

SelFirstDistinct(m) ==
    /\ Len(unit.out.selected_from) >= m
    /\ \A i, j \in 1..m : i # j => unit.out.selected_from[i] # unit.out.selected_from[j]

\* C3 as stated: with at least min_unique_domains sources each holding an
\* available item and max_items >= min_unique_domains, the first
\* min_unique_domains returned items come from pairwise distinct sources.
C3_AsStated ==
    (/\ SelReturned
     /\ unit.in.min_unique_domains >= 1
     /\ unit.in.max_items >= unit.in.min_unique_domains
     /\ Cardinality({key \in SelSources : SelHoldsAvailable(key)}) >= unit.in.min_unique_domains)
    => SelFirstDistinct(unit.in.min_unique_domains)

\* C3 amended: the same, when each of the min_unique_domains sources holds an
\* available item whose normalized title and URL no item of another source shares.
C3_SelectorDiversity ==
    (/\ SelReturned
     /\ unit.in.min_unique_domains >= 1
     /\ unit.in.max_items >= unit.in.min_unique_domains
     /\ Cardinality({key \in SelSources : SelHoldsOwn(key)}) >= unit.in.min_unique_domains)
    => SelFirstDistinct(unit.in.min_unique_domains)

\* C3 witness: two sources with items of their own, a third without, a budget
\* of three, and two distinct sources leading the result.
C3_Witness ==
    /\ SelReturned
    /\ unit.in.min_unique_domains = 2
    /\ unit.in.max_items = 3
    /\ Cardinality({key \in SelSources : SelHoldsOwn(key)}) = 2
    /\ SelFirstDistinct(2)
    /\ Len(unit.out.selected) = 3

\* ------------------------------------------------------------------------
\* Claims about the pipeline (checked under Spec)
\* ------------------------------------------------------------------------
\* The run has ended: run_daily returned, or an exception left it.
Ended == pc \in {"done", "raised"}

\* The collect rounds a run needs at most when every review that routes back
\* to collect has raised lookback_days.
RoundLimit == Max2(cfg.MAX_LOOKBACK_DAYS - cfg.DEFAULT_LOOKBACK_DAYS, 0) + 1

\* C1 as stated: whatever the configuration and the sources, the collection
\* loop reaches the evaluate stage after a bounded number of collect rounds,
\* at most one for each day lookback_days can still grow, and one more.
C1_AsStated == calls.rounds <= RoundLimit

\* No two items of the list share a non-empty normalized title or URL.
UniqueKeys(items) ==
    \A i, j \in 1..Len(items) :
        i < j =>
            /\ _normalize_title(items[i].title) # <<>> =>
                  _normalize_title(items[i].title) # _normalize_title(items[j].title)
            /\ _normalize_url(items[i].url) # <<>> =>
                  _normalize_url(items[i].url) # _normalize_url(items[j].url)

\* Every non-empty key of the items is in the round's seen sets.
KeysSeen(items, seen_titles, seen_urls) ==
    \A i \in 1..Len(items) :
        /\ _normalize_title(items[i].title) # <<>> =>
              _normalize_title(items[i].title) \in seen_titles
        /\ _normalize_url(items[i].url) # <<>> =>
              _normalize_url(items[i].url) \in seen_urls

\* C4: after every collect round no two items of raw_items share a non-empty
\* normalized title or a non-empty normalized URL; while the round runs the
\* same holds of the items selected so far, and every non-empty key of a
\* selected item is in seen_titles / seen_urls.
C4_RawItemsUnique ==
    /\ UniqueKeys(state.raw_items)
    /\ UniqueKeys(c.items)
    /\ KeysSeen(c.items, c.seen_titles, c.seen_urls)

\* A round has ended in which two sources delivered the same normalized title
\* and an item was kept.
C4_Witness ==
    /\ pc = "screen"
    /\ state.raw_items # <<>>
    /\ \E key \in DOMAIN state.title_references :
          Cardinality(state.title_references[key]) >= 2

\* The TrendItems of assessed_items with the normalized title `key`.
AssessedWith(key) ==
    {j \in 1..Len(state.assessed_items) :
        _normalize_title(state.assessed_items[j].title) = key}

\* C5 as stated: at the end of the run assessed_items holds at most one
\* TrendItem per delivered normalized title, and exactly one when the item
\* survived screening and the cap (a lone item cannot be capped away).
C5_AsStated ==
    Ended =>
        \A i \in 1..Len(state.raw_items) :
            LET key == _normalize_title(state.raw_items[i].title)
            IN  key # <<>> =>
                   /\ Cardinality(AssessedWith(key)) <= 1
                   /\ Len(state.raw_items) = 1 => Cardinality(AssessedWith(key)) = 1

\* C8 as stated, on its example: when two sources reported the title of the one
\* item that survived, the run ends with a TrendItem of that title whose
\* source_references holds both sources.
C8_AsStated ==
    (Ended /\ Len(state.raw_items) = 1) =>
        LET key == _normalize_title(state.raw_items[1].title)
        IN  (key \in DOMAIN state.title_references
                /\ Cardinality(state.title_references[key]) >= 2) =>
               \E j \in AssessedWith(key) :
                  state.title_references[key] \subseteq
                      Range(state.assessed_items[j].source_references)

\* C9: a failed source call does not abort the round.  When the round ends every
\* expert was searched, discover_feeds was called for every candidate a search
\* returned with a usable URL, every feed URL a discovery returned was fetched,
\* and every failed call has its entry in errors.
C9_RoundContinues ==
    pc = "screen" =>
        /\ calls.searched = Range(Experts)
        /\ calls.offered_sources \subseteq calls.discovered
        /\ calls.offered_feeds \subseteq calls.fetched
        /\ calls.failed \subseteq Range(state.errors)

\* The first round has ended; in it the first expert's search failed, and an
\* item a later expert's source delivered was collected.
C9_Witness ==
    /\ pc = "screen"
    /\ calls.rounds = 1
    /\ <<"search_sources", Experts[1]>> \in calls.failed
    /\ calls.offered_sources # {}
    /\ state.raw_items # <<>>

\* C10 as stated: once scoring is over, every failure of the run, of a source
\* call or of a reference lookup, is an entry of errors.
C10_AsStated == pc \in {"store", "done", "raised"} => calls.failed \subseteq Range(state.errors)

\* ------------------------------------------------------------------------
\* Claims about the quota walk (checked under SpecQuota)
\* ------------------------------------------------------------------------
QuotaReturned == pc = "quota" /\ unit.stage = "output"

\* The number of returned trends of the category.
QuotaCount(category) ==
    Cardinality({i \in 1..Len(unit.out) : unit.out[i].category = category})

\* C6 as stated: no more than K items of any one category, and no two items
\* with the same normalized title.
C6_AsStated ==
    QuotaReturned =>
        /\ \A category \in Categories : QuotaCount(category) <= unit.in.cap
        /\ \A i, j \in 1..Len(unit.out) :
              i < j => _normalize_title(unit.out[i].title) # _normalize_title(unit.out[j].title)

\* C6: the quota walk returns no more than max(K, 0) items of any one category,
\* no two items with the same non-empty normalized title, and no two items
\* of empty normalized title with the same id.
C6_QuotaCap ==
    QuotaReturned =>
        /\ \A category \in Categories : QuotaCount(category) <= Max2(unit.in.cap, 0)
        /\ \A i, j \in 1..Len(unit.out) :
              i < j =>
                 IF _normalize_title(unit.out[i].title) # <<>>
                 THEN _normalize_title(unit.out[i].title) # _normalize_title(unit.out[j].title)
                 ELSE _normalize_title(unit.out[j].title) # <<>> \/ unit.out[i].id # unit.out[j].id

\* The walk dropped a duplicate title and capped a category: the input holds a
\* normalized title twice and two distinct titles of one category, the cap is 1,
\* and a trend is returned.
C6_Witness ==
    /\ QuotaReturned
    /\ unit.in.cap = 1
    /\ unit.out # <<>>
    /\ \E i, j \in 1..Len(unit.in.trends) :
          /\ i < j
          /\ _normalize_title(unit.in.trends[i].title) # <<>>
          /\ _normalize_title(unit.in.trends[i].title) = _normalize_title(unit.in.trends[j].title)
    /\ \E i, j \in 1..Len(unit.in.trends) :
          /\ unit.in.trends[i].category = unit.in.trends[j].category
          /\ DedupeKey(unit.in.trends[i]) # DedupeKey(unit.in.trends[j])

\* The first position of the input that holds the trend.
FirstArrival(trend) ==
    CHOOSE p \in 1..Len(unit.in.trends) :
        /\ unit.in.trends[p] = trend
        /\ \A q \in 1..(p - 1) : unit.in.trends[q] # trend

\* The first position of the input that holds a trend of the same title (of
\* the same id when the normalized title is empty).
FirstOfTitle(trend) ==
    CHOOSE p \in 1..Len(unit.in.trends) :
        /\ DedupeKey(unit.in.trends[p]) = DedupeKey(trend)
        /\ \A q \in 1..(p - 1) : DedupeKey(unit.in.trends[q]) # DedupeKey(trend)

\* The deduplicated trends: of each title, the first trend with the highest score.
Survivors ==
    {unit.in.trends[p] : p \in
        {p \in 1..Len(unit.in.trends) :
            \A q \in 1..Len(unit.in.trends) :
                DedupeKey(unit.in.trends[q]) = DedupeKey(unit.in.trends[p]) =>
                    \/ unit.in.trends[q].trending_score < unit.in.trends[p].trending_score
                    \/ /\ unit.in.trends[q].trending_score = unit.in.trends[p].trending_score
                       /\ q >= p}}

\* The returned list is ordered by trending_score, largest first.
QuotaDescending ==
    \A i, j \in 1..Len(unit.out) :
        i < j => unit.out[i].trending_score >= unit.out[j].trending_score

\* Each category holds its min(max(K, 0), n) first deduplicated trends in the
\* order Precedes, n being the number of deduplicated trends of the category.
QuotaTopK(Precedes(_, _)) ==
    /\ Range(unit.out) \subseteq Survivors
    /\ \A category \in Categories :
          LET mine == {trend \in Survivors : trend.category = category}
          IN  /\ QuotaCount(category) =
                    Min2(Max2(unit.in.cap, 0), Cardinality(mine))
              /\ \A x \in Range(unit.out) \cap mine :
                    \A y \in mine \ Range(unit.out) : Precedes(x, y)

\* x precedes y: the higher score, and among equal scores the trend that
\* arrived first.
BeforeByArrival(x, y) ==
    \/ x.trending_score > y.trending_score
    \/ x.trending_score = y.trending_score /\ FirstArrival(x) < FirstArrival(y)

\* x precedes y: the higher score, and among equal scores the trend whose
\* title arrived first.
BeforeByTitle(x, y) ==
    \/ x.trending_score > y.trending_score
    \/ x.trending_score = y.trending_score /\ FirstOfTitle(x) < FirstOfTitle(y)

\* C7 as stated: the list is ordered by trending_score descending, trends of
\* equal score are in the order they arrived, and each category holds its K
\* highest-scored deduplicated trends.
C7_AsStated ==
    QuotaReturned =>
        /\ QuotaDescending
        /\ \A i, j \in 1..Len(unit.out) : i < j => BeforeByArrival(unit.out[i], unit.out[j])
        /\ QuotaTopK(BeforeByArrival)

\* C7: the list is ordered by trending_score descending, trends of equal score
\* are in the order their titles first arrived (a trend that replaced a
\* lower-scored duplicate stands where the duplicate stood), and each category
\* holds its min(max(K, 0), n) first deduplicated trends in that order.
C7_SortedTopK ==
    QuotaReturned =>
        /\ QuotaDescending
        /\ \A i, j \in 1..Len(unit.out) : i < j => BeforeByTitle(unit.out[i], unit.out[j])
        /\ QuotaTopK(BeforeByTitle)

\* Three deduplicated trends of one category under cap 2: the two that precede
\* are returned, two of the three have the same score.
C7_Witness ==
    /\ QuotaReturned
    /\ unit.in.cap = 2
    /\ Len(unit.out) = 2
    /\ \E category \in Categories :
          Cardinality({trend \in Survivors : trend.category = category}) = 3
    /\ unit.out[1].trending_score = 2
    /\ unit.out[2].trending_score = 1

\* ------------------------------------------------------------------------
\* The reference lookups of evaluate_sources (graph.py 318-375) as a unit:
\* the lookups are submitted, complete one at a time in any order, and the
\* items are scored
\* ------------------------------------------------------------------------
\* Items of one source with pairwise different dates, keys and gaps.
LookItems ==
    {SourceItem(TitleAb, UrlU1, 2, "SrcA"),
     SourceItem(TitleB, UrlU2, 1, "SrcA"),
     SourceItem(TitleQ, UrlV, None, "SrcA"),
     SourceItem(TitleNone, UrlNone, None, "SrcA"),
     SourceItem(TitleAB, UrlNone, 2, "SrcA"),
     SourceItem(TitleNone, UrlU1Slash, 1, "SrcA")}

\* The non-empty normalized titles of the items.
TitleKeys(items) ==
    {_normalize_title(items[i].title) : i \in 1..Len(items)} \ {<<>>}

\* What evaluate_sources may be given: raw_items as collect_sources leaves them
\* (no key twice, every non-empty title recorded in title_references with the
\* item's source), a lookup budget and a value of TRENDS_MAX_WORKERS.
LookupInputs ==
    {[raw_items |-> raw, title_references |-> refs, max_lookups |-> budget,
      TRENDS_MAX_WORKERS |-> workers] :
        raw \in {l \in SeqsUpTo(LookItems, MaxTrends) : UniqueKeys(l)},
        refs \in UNION {[TitleKeys(l) -> {{"SrcA"}, {"SrcA", "SrcB"}}] :
                            l \in SeqsUpTo(LookItems, MaxTrends)},
        budget \in 0..2,
        workers \in 0..2}

\* Before the lookups are selected.
NoLookups == [lookups |-> <<>>, pending |-> {}, running |-> {}, answers |-> <<>>, order |-> <<>>,
              cache |-> <<>>, counts |-> <<>>, scores |-> <<>>]

InitLookup ==
    /\ pc = "lookup"
    /\ cfg = IdleCfg
    /\ state = IdleState
    /\ c = IdleFrame
    /\ calls = NoCalls
    /\ fuel = 0
    /\ \E in \in LookupInputs :
          /\ DOMAIN in.title_references = TitleKeys(in.raw_items)
          /\ unit = [stage |-> "input", in |-> in, out |-> NoLookups]

\* evaluate_items (agents.py 295-342) keeps the items and their order.
LookupAssessed(raw_items) ==
    [i \in 1..Len(raw_items) |-> [item |-> raw_items[i], category |-> "product"]]

\* A pool with one worker for every submitted lookup.
max_workers_PerLookup(workers, n) == n

\* line 343: min(TRENDS_MAX_WORKERS, 8, len(lookup_items))
max_workers(workers, n) == Min2(Min2(workers, 8), n)

\* lines 326-358: the lookups are selected and one future is submitted for each;
\* ThreadPoolExecutor raises ValueError for max_workers <= 0.
LookupSubmit ==
    /\ pc = "lookup"
    /\ unit.stage = "input"
    /\ LET lookups == lookup_items(prioritized(LookupAssessed(unit.in.raw_items)), <<>>,
                                   unit.in.max_lookups)
       IN  IF lookups # <<>> /\ max_workers(unit.in.TRENDS_MAX_WORKERS, Len(lookups)) <= 0
           THEN unit' = [unit EXCEPT !.stage = "raised"]
           ELSE unit' = [unit EXCEPT !.stage = "in_flight",
                                     !.out.lookups = lookups,
                                     !.out.pending = 1..Len(lookups)]
    /\ UNCHANGED <<pc, cfg, state, c, calls, fuel>>

\* The submitted lookups no worker has taken yet.
Queued(out) == out.pending \ out.running

\* concurrent.futures: a worker of the pool, of which there are at most
\* max_workers, takes the oldest queued lookup and calls count_references.
LookupStart ==
    /\ pc = "lookup"
    /\ unit.stage = "in_flight"
    /\ Queued(unit.out) # {}
    /\ Cardinality(unit.out.running) <
           max_workers(unit.in.TRENDS_MAX_WORKERS, Len(unit.out.lookups))
    /\ unit' = [unit EXCEPT !.out.running =
                    @ \cup {CHOOSE k \in Queued(unit.out) : \A j \in Queued(unit.out) : k <= j}]
    /\ UNCHANGED <<pc, cfg, state, c, calls, fuel>>

\* lines 359-367: a running lookup returns a count or raises, and as_completed
\* yields its future.
LookupComplete ==
    /\ pc = "lookup"
    /\ unit.stage = "in_flight"
    /\ \E k \in unit.out.running : \E answer \in {Raised} \cup {Returned(v) : v \in 0..MaxCount} :
          unit' = [unit EXCEPT
                      !.out.pending = @ \ {k},
                      !.out.running = @ \ {k},
                      !.out.answers = @ @@ (k :> answer),
                      !.out.order = Append(@, k),
                      !.out.cache = CacheStore(@, unit.out.lookups[k], answer,
                                               title_groups(unit.in))]
    /\ UNCHANGED <<pc, cfg, state, c, calls, fuel>>

\* The scoring loop would start with futures still pending.
LookupsDone_Early(out) == TRUE

\* lines 342-367: the with-block ends when as_completed has yielded every future.
LookupsDone(out) == out.pending = {}

\* lines 369-375: reference_count and trending_score of every assessed item.
ScoreItems ==
    /\ pc = "lookup"
    /\ unit.stage = "in_flight"
    /\ LookupsDone(unit.out)
    /\ LET raw == unit.in.raw_items
           counts == [i \in 1..Len(raw) |->
                         ReferenceCount(raw[i], title_groups(unit.in), unit.out.cache)]
       IN  unit' = [unit EXCEPT
                       !.stage = "scored",
                       !.out.counts = counts,
                       !.out.scores = [i \in 1..Len(raw) |->
                                          compute_trending_score(counts[i], raw[i].published_at)]]
    /\ UNCHANGED <<pc, cfg, state, c, calls, fuel>>

NextLookup == LookupSubmit \/ LookupStart \/ LookupComplete \/ ScoreItems

SpecLookup == InitLookup /\ [][NextLookup]_vars

\* ------------------------------------------------------------------------
\* Claims about the reference lookups (checked under SpecLookup)
\* ------------------------------------------------------------------------
\* The lookups have been selected.
Submitted == pc = "lookup" /\ unit.stage \in {"in_flight", "scored"}

\* The items of raw_items that have a URL key.
WithUrl(raw) == {raw[i] : i \in {j \in 1..Len(raw) : _normalize_url(raw[j].url) # <<>>}}

\* x was published later than y; an item without published_at is later than none.
Later(x, y) ==
    /\ x.published_at # None
    /\ (y.published_at = None \/ x.published_at > y.published_at)

\* C11: one evaluate pass issues at most MAX_REFERENCE_LOOKUPS count_references
\* calls, all for items with a non-empty URL and as many as the budget and the
\* items allow; no item with a URL that is left out was published later than
\* an item that is looked up, and the calls are issued newest first, the items
\* without published_at last.
C11_LookupBudget ==
    Submitted =>
        LET raw == unit.in.raw_items
            looked == unit.out.lookups
        IN  /\ Len(looked) <= unit.in.max_lookups
            /\ Len(looked) = Min2(unit.in.max_lookups, Cardinality(WithUrl(raw)))
            /\ Range(looked) \subseteq WithUrl(raw)
            /\ Cardinality(Range(looked)) = Len(looked)
            /\ \A x \in WithUrl(raw) \ Range(looked) : \A y \in Range(looked) : ~Later(x, y)
            /\ \A i, j \in 1..Len(looked) : i < j => ~Later(looked[j], looked[i])

\* The budget is used up, and an item that comes first in raw_items is left
\* out although it has a URL, while a later item of raw_items is looked up.
C11_Witness ==
    /\ Submitted
    /\ unit.in.max_lookups >= 1
    /\ Len(unit.out.lookups) = unit.in.max_lookups
    /\ Len(unit.in.raw_items) >= 2
    /\ unit.in.raw_items[1] \in WithUrl(unit.in.raw_items) \ Range(unit.out.lookups)
    /\ unit.in.raw_items[2] \in Range(unit.out.lookups)

\* The lookups have completed and the items are scored.
Scored == pc = "lookup" /\ unit.stage = "scored"

\* The number of distinct sources recorded for the item's normalized title.
RecordedSources(in, item) ==
    LET key == _normalize_title(item.title)
    IN  IF key # <<>> /\ key \in DOMAIN in.title_references
        THEN Cardinality(in.title_references[key])
        ELSE 0

\* The positions in lookup_items of the lookup issued for the item.
LookupsOf(item) == {k \in 1..Len(unit.out.lookups) : unit.out.lookups[k] = item}

TitlesRecorded ==
    \A i \in 1..Len(state.raw_items) :
        LET key == _normalize_title(state.raw_items[i].title)
        IN  key # <<>> =>
                /\ key \in DOMAIN state.title_references
                /\ state.raw_items[i].source \in state.title_references[key]

\* The answers of the lookups in the order the lookups were submitted.
AnswersSubmitted == [k \in 1..Len(unit.out.lookups) |-> unit.out.answers[k]]

Keyless(item) == _normalize_title(item.title) = <<>> /\ _normalize_url(item.url) = <<>>

\* C20 as stated: an item whose normalized title and URL are both empty is in
\* no source's candidate list, in no selection and not in raw_items.
C20_AsStated ==
    /\ \A key \in DOMAIN c.items_by_source :
          \A i \in 1..Len(c.items_by_source[key]) : ~Keyless(c.items_by_source[key][i])
    /\ \A i \in 1..Len(c.items) : ~Keyless(c.items[i])
    /\ \A i \in 1..Len(state.raw_items) : ~Keyless(state.raw_items[i])

\* C17 as stated: the pipeline never enters evaluate with a lookback_days
\* value, or a lookback_history entry, for which no collect round was run; an
\* increase by review is always followed by a collect round with that window.
C17_AsStated ==
    pc = "evaluate" =>
        /\ state.lookback_days \in calls.collected
        /\ \A i \in 1..Len(state.lookback_history) :
              state.lookback_history[i] \in calls.collected

\* ------------------------------------------------------------------------
\* Claims about run_daily and the loop it runs (checked under SpecDaily)
\* ------------------------------------------------------------------------
\* C18 as stated: no further collect round is started after a round that
\* returned no item.
C18_AsStated == (pc = "collect" /\ calls.rounds >= 1) => calls.returned > 0

\* C14: when OVERWRITE_EXECUTION is off and a record of the run date exists,
\* run_daily runs no stage: no collect round starts, no tool is called, nothing
\* is scored or upserted, and the state it returns has empty raw_items and
\* assessed_items and exactly one error, which names the existing record.
C14_SkipExisting ==
    (~cfg.OVERWRITE_EXECUTION /\ unit.in.exists /\ pc # "run_daily") =>
        /\ pc \in {"done", "raised"}
        /\ calls = NoCalls
        /\ c = IdleFrame
        /\ pc = "done" =>
              /\ state.raw_items = <<>>
              /\ state.assessed_items = <<>>
              /\ state.lookback_history = <<>>
              /\ Len(state.errors) = 1
              /\ state.errors[1] = <<"Daily record exists", state.run_date>>
              /\ fuel = MaxEvents

\* run_daily has returned the skipped state.
C14_Witness ==
    /\ pc = "done"
    /\ ~cfg.OVERWRITE_EXECUTION
    /\ unit.in.exists
    /\ Len(state.errors) = 1

\* ------------------------------------------------------------------------
\* compute_trending_score (scoring.py 9-19) as a unit: two calls made at the
\* same instant
\* ------------------------------------------------------------------------
\* Reference counts, negative ones included, and publication days before, at
\* and after the day of the call, or none.
ScoreInputs == [reference_count : -2..6, published_at : {None} \cup (0..(Now + 2))]

InitScore ==
    /\ pc = "score"
    /\ cfg = IdleCfg
    /\ state = IdleState
    /\ c = IdleFrame
    /\ calls = NoCalls
    /\ fuel = 0
    /\ \E first \in ScoreInputs : \E second \in ScoreInputs :
          unit = [stage |-> "input", in |-> <<first, second>>, out |-> <<>>]

ScoreCall ==
    /\ pc = "score"
    /\ unit.stage = "input"
    /\ unit' = [unit EXCEPT
                   !.stage = "output",
                   !.out = [i \in 1..2 |-> compute_trending_score(unit.in[i].reference_count,
                                                                  unit.in[i].published_at)]]
    /\ UNCHANGED <<pc, cfg, state, c, calls, fuel>>

NextScore == ScoreCall

SpecScore == InitScore /\ [][NextScore]_vars

\* ------------------------------------------------------------------------
\* Claims about compute_trending_score (checked under SpecScore)
\* ------------------------------------------------------------------------
\* Both calls have returned.
ScoreReturned == pc = "score" /\ unit.stage = "output"

\* C15: compute_trending_score returns 0 whenever reference_count is 0 or
\* negative, for every published_at, a missing one included.
C15_ZeroReferences ==
    ScoreReturned =>
        \A i \in 1..2 : unit.in[i].reference_count <= 0 => unit.out[i] = 0

\* A call with a negative count and a date returned 0 next to a call with the
\* same date and a positive count that returned more.
C15_Witness ==
    /\ ScoreReturned
    /\ unit.in[1].reference_count < 0
    /\ unit.in[1].published_at \notin {None, Now}
    /\ unit.in[2].published_at = unit.in[1].published_at
    /\ unit.in[2].reference_count > 0
    /\ unit.out[1] = 0
    /\ unit.out[2] > 0

\* utcnow() - published_at of a call, in days (negative for a date after now).
Elapsed(in) == Now - in.published_at

\* The two calls have dates and the same positive count, and more time has
\* elapsed for the second.
SecondOlder ==
    /\ unit.in[1].published_at # None /\ unit.in[2].published_at # None
    /\ unit.in[1].reference_count = unit.in[2].reference_count
    /\ unit.in[1].reference_count > 0
    /\ Elapsed(unit.in[1]) < Elapsed(unit.in[2])

\* The two calls have the same published_at and the first count is no larger.
SecondMoreReferences ==
    /\ unit.in[1].published_at = unit.in[2].published_at
    /\ unit.in[1].reference_count <= unit.in[2].reference_count

\* C16 as stated: for a fixed age the score does not decrease when the count
\* grows, and for a fixed positive count it strictly decreases when the elapsed
\* age grows.
C16_AsStated ==
    ScoreReturned =>
        /\ SecondMoreReferences => unit.out[1] <= unit.out[2]
        /\ SecondOlder => unit.out[1] > unit.out[2]

\* C16: for a fixed published_at the score does not decrease when the count
\* grows; for a fixed positive count the score never increases when the
\* elapsed age grows, strictly decreases between two ages that are not
\* negative, and is the same for all dates at or after the call (a negative
\* age counts as 0).
C16_Monotone ==
    ScoreReturned =>
        /\ SecondMoreReferences => unit.out[1] <= unit.out[2]
        /\ SecondOlder =>
              /\ unit.out[1] >= unit.out[2]
              /\ Elapsed(unit.in[1]) >= 0 => unit.out[1] > unit.out[2]
              /\ Elapsed(unit.in[2]) <= 0 => unit.out[1] = unit.out[2]

\* Two calls with the same positive count: one for a date after the call and
\* one for a date before it, the older scoring strictly less.
C16_Witness ==
    /\ ScoreReturned
    /\ SecondOlder
    /\ Elapsed(unit.in[1]) < 0
    /\ Elapsed(unit.in[2]) > 0
    /\ unit.out[1] > unit.out[2]

\* ------------------------------------------------------------------------
\* Claims about the sweeps and the kept items of _select_items_round_robin
\* (checked under SpecSelect)
\* ------------------------------------------------------------------------
\* C19: every call of _select_items_round_robin returns, having started at most
\* max_items + 2 sweeps; in each of the two phases every sweep but the last
\* selects at least one item, so the sweeps exceed the selected items by at
\* most 2.
C19_SweepBound ==
    SelReturned =>
        /\ unit.out.sweeps <= unit.in.max_items + 2
        /\ unit.out.sweeps <= Len(unit.out.selected) + 2

\* A call in which the diversity phase ended on a sweep that found nothing for
\* the missing source and the fill phase ended on a sweep over exhausted
\* sources, after items were selected.
C19_Witness ==
    /\ SelReturned
    /\ Len(unit.out.selected) >= 2
    /\ Len(unit.out.selected) < unit.in.max_items
    /\ unit.out.sweeps = Len(unit.out.selected) + 2

\* ------------------------------------------------------------------------
\* Claims about title_references (checked under Spec)
\* ------------------------------------------------------------------------
\* Some item of the list has the normalized title `key`.
HasTitle(items, key) == \E i \in 1..Len(items) : _normalize_title(items[i].title) = key

C22_AsStated ==
    pc = "review" =>
        \A key \in DOMAIN state.title_references : HasTitle(state.raw_items, key)

\* ------------------------------------------------------------------------
\* Claims about the calls of a collect round (checked under Spec)
\* ------------------------------------------------------------------------
\* C23 as stated: within one collect round no feed URL is fetched twice and
\* discover_feeds is called at most once for a source URL, also when several
\* experts return the same source.
C23_AsStated ==
    /\ pc = "fetch_feed" => c.feeds[c.fi].feed_url \notin calls.fetched
    /\ \A x \in calls.discovered : \A y \in calls.discovered : x[2] = y[2] => x = y

TitledAt(key) ==
    {p \in 1..Len(unit.in.trends) : _normalize_title(unit.in.trends[p].title) = key}

\* The first position among `at` that holds the highest score found in `at`.
FirstMax(at) ==
    CHOOSE p \in at :
        \A q \in at :
            \/ unit.in.trends[q].trending_score < unit.in.trends[p].trending_score
            \/ unit.in.trends[q].trending_score = unit.in.trends[p].trending_score /\ q >= p

\* C25 as stated: of the trends with one normalized title exactly one survives
\* the dedupe, the first of them that has the highest score.
C25_AsStated ==
    QuotaReturned =>
        \A p \in 1..Len(unit.in.trends) :
            LET key == _normalize_title(unit.in.trends[p].title)
            IN  {i \in 1..Len(unit.deduped) : _normalize_title(unit.deduped[i].title) = key}
                    = {i \in 1..Len(unit.deduped) :
                          unit.deduped[i] = unit.in.trends[FirstMax(TitledAt(key))]}

\* The positions of the input whose trend has the dedupe key of `trend`.
KeyedAt(trend) ==
    {p \in 1..Len(unit.in.trends) : DedupeKey(unit.in.trends[p]) = DedupeKey(trend)}

\* C25: the dedupe is by key, the normalized title or, when that is empty, the
\* trend's id.  Of the trends with one key exactly one survives, the first of
\* them that has the highest score (a later trend replaces the kept one only
\* when its score is strictly higher), and the survivors stand in the order in
\* which their keys first arrived.
C25_FirstMaxSurvives ==
    QuotaReturned =>
        /\ \A p \in 1..Len(unit.in.trends) :
              \E i \in 1..Len(unit.deduped) :
                  /\ unit.deduped[i] = unit.in.trends[FirstMax(KeyedAt(unit.in.trends[p]))]
                  /\ \A j \in 1..Len(unit.deduped) :
                        DedupeKey(unit.deduped[j]) = DedupeKey(unit.in.trends[p]) => j = i
        /\ \A i \in 1..Len(unit.deduped) : KeyedAt(unit.deduped[i]) # {}
        /\ \A i, j \in 1..Len(unit.deduped) :
              i < j => FirstOfTitle(unit.deduped[i]) < FirstOfTitle(unit.deduped[j])

\* Three trends of one title arrived with scores 1, 2, 2: the second replaced
\* the first and was kept against the third.
C25_Witness ==
    /\ QuotaReturned
    /\ Len(unit.in.trends) = 3
    /\ KeyedAt(unit.in.trends[1]) = {1, 2, 3}
    /\ _normalize_title(unit.in.trends[1].title) # <<>>
    /\ unit.in.trends[1].trending_score = 1
    /\ unit.in.trends[2].trending_score = 2
    /\ unit.in.trends[3].trending_score = 2
    /\ unit.in.trends[3] # unit.in.trends[2]
    /\ unit.deduped = <<unit.in.trends[2]>>

\* ------------------------------------------------------------------------
\* Claims about the fields each stage changes (checked under Spec)
\* ------------------------------------------------------------------------
\* The positions of the model inside collect_sources.
CollectPcs == {"collect", "search", "discover", "fetch_feed", "non_rss", "select"}

\* This step leaves every field of the pipeline state outside `fields` as it was.
OnlyChanges(fields) ==
    /\ DOMAIN state' = DOMAIN state
    /\ \A field \in DOMAIN state \ fields : state'[field] = state[field]

\* C26: a step of collect changes only raw_items, errors and title_references;
\* screen only raw_items and title_references; review only lookback_days and
\* lookback_history; evaluate only assessed_items; store nothing.  run_date,
\* target_trend_count and max_lookback_days never change.
C26_StageFrames ==
    [][/\ pc \in CollectPcs => OnlyChanges({"raw_items", "errors", "title_references"})
       /\ pc = "screen" => OnlyChanges({"raw_items", "title_references"})
       /\ pc = "review" => OnlyChanges({"lookback_days", "lookback_history"})
       /\ pc = "evaluate" => OnlyChanges({"assessed_items"})
       /\ pc = "store" => OnlyChanges({})
       /\ OnlyChanges({"raw_items", "errors", "title_references", "lookback_days",
                       "lookback_history", "assessed_items"})]_vars

\* A run in which collect recorded an error and a title, screen emptied
\* raw_items, review widened the window, and evaluate and store were passed.
C26_Witness ==
    /\ pc = "done"
    /\ state.errors # <<>>
    /\ state.lookback_history # <<>>
    /\ DOMAIN state.title_references # {}
    /\ state.raw_items = <<>>

\* ------------------------------------------------------------------------
\* Claims about store_results in the pipeline (checked under Spec)
\* ------------------------------------------------------------------------
UpsertRaised == <<"upsert_daily_record", state.run_date>> \in calls.failed

\* C27: upsert_daily_record is called at most once in a run, only by the store
\* stage, which runs after evaluate_sources has returned (so the run is over
\* once a call was made), and never while assessed_items is empty; a call
\* that raised ends the run as raised and was that one call.
C27_UpsertOnce ==
    /\ calls.upserts <= 1
    /\ calls.upserts > 0 => Ended
    /\ state.assessed_items = <<>> => calls.upserts = 0
    /\ UpsertRaised => pc = "raised" /\ calls.upserts = 1

\* A run that collected items, lost them all to the screener, passed evaluate
\* and store and ended without an upsert.
C27_Witness ==
    /\ pc = "done"
    /\ calls.returned > 0
    /\ state.assessed_items = <<>>
    /\ calls.upserts = 0

\* ------------------------------------------------------------------------
\* Balance of _select_items_round_robin (checked under SpecSelect)
\* ------------------------------------------------------------------------
\* The source's list still holds, past the point the call read it to, an item
\* that neither seen set holds when the call returns.
SelRemaining(key) ==
    /\ key \in DOMAIN unit.out.source_indices
    /\ \E i \in (unit.out.source_indices[key] + 1)..Len(unit.in.items_by_source[key]) :
          ~IsDuplicate(_normalize_title(unit.in.items_by_source[key][i].title),
                       _normalize_url(unit.in.items_by_source[key][i].url),
                       unit.out.seen_titles, unit.out.seen_urls)

SelBelowCap(key) ==
    SelCount(key) < EffectiveMaxPerSource(unit.in.max_items_per_source, unit.in.max_items)

\* C28 as stated: when the call returns, two sources that each still hold an
\* unseen, unselected candidate and are below max_items_per_source have
\* selected counts that differ by at most one, and no source has contributed
\* two or more items while a source that still holds a candidate contributed
\* none.
C28_AsStated ==
    SelReturned =>
        /\ \A k1, k2 \in SelSources :
              (SelRemaining(k1) /\ SelBelowCap(k1) /\ SelRemaining(k2) /\ SelBelowCap(k2))
              => SelCount(k1) - SelCount(k2) <= 1
        /\ \A k1, k2 \in SelSources :
              ~(SelCount(k1) >= 2 /\ SelCount(k2) = 0 /\ SelRemaining(k2))

\* ------------------------------------------------------------------------
\* SpecStore: store_results applied to the lists the quota walk returns
\* ------------------------------------------------------------------------
\* A state whose assessed_items is what lines 393-407 leave of a list of
\* TrendItems, with the MAX_TRENDS_PER_CATEGORY both stages read.
StoreInputs ==
    {[assessed_items |-> QuotaWalk(trends, cap), cap |-> cap] :
        trends \in SeqsUpTo(QuotaTrends, MaxLen), cap \in -1..2}

NothingStored == [raised |-> FALSE, upserted |-> FALSE, maps |-> EmptyMaps]

InitStore ==
    /\ pc = "store_results"
    /\ cfg = IdleCfg
    /\ state = IdleState
    /\ c = IdleFrame
    /\ calls = NoCalls
    /\ fuel = 1
    /\ \E in \in StoreInputs : unit = [stage |-> "input", in |-> in, out |-> NothingStored]

\* lines 413-452 as in StoreResults, keeping what was handed to
\* upsert_daily_record.
StoreCall ==
    /\ pc = "store_results"
    /\ unit.stage = "input"
    /\ IF SkipsUpsert(unit.in)
       THEN unit' = [unit EXCEPT !.stage = "output"] /\ UNCHANGED fuel
       ELSE \E filled \in {add_entries(sorted_trends(unit.in.assessed_items), EmptyMaps,
                                       unit.in.cap)} :
              IF filled.raised
              THEN /\ unit' = [unit EXCEPT !.stage = "output",
                                           !.out = [raised |-> TRUE, upserted |-> FALSE,
                                                    maps |-> filled.maps]]
                   /\ UNCHANGED fuel
              ELSE \E answer \in Outcomes({<<>>}) :
                     /\ unit' = [unit EXCEPT !.stage = "output",
                                             !.out = [raised |-> ~answer.ok, upserted |-> TRUE,
                                                      maps |-> filled.maps]]
                     /\ fuel' = Burn(answer)
    /\ UNCHANGED <<pc, cfg, state, c, calls>>

NextStore == StoreCall

SpecStore == InitStore /\ [][NextStore]_vars

\* ------------------------------------------------------------------------
\* Claims about store_results (checked under SpecStore)
\* ------------------------------------------------------------------------
StoreReturned == pc = "store_results" /\ unit.stage = "output"

\* The assessed items that go to the map `name`.
StoreItemsOf(name) ==
    {i \in 1..Len(unit.in.assessed_items) : TargetOf(unit.in.assessed_items[i]) = name}

\* C29 as stated: for a non-empty assessed_items store_results hands
\* upsert_daily_record three maps that together hold as many entries as there
\* are assessed items, each map holding one entry for every item of its
\* category (none dropped by the cap, none overwritten under a shared title).
C29_AsStated ==
    (StoreReturned /\ unit.in.assessed_items # <<>>) =>
        /\ unit.out.upserted
        /\ \A name \in DOMAIN EmptyMaps :
              /\ Len(unit.out.maps[name]) = Cardinality(StoreItemsOf(name))
              /\ Cardinality(Range(unit.out.maps[name])) = Len(unit.out.maps[name])

\* ------------------------------------------------------------------------
\* The TrendItem schema in the pipeline (checked under Spec)
\* ------------------------------------------------------------------------
\* C30 as stated: a run whose screened raw_items is not empty does not end in
\* an exception but passes evaluate_sources and store_results, because every
\* field the TrendItem schema requires is among the arguments evaluate_sources
\* passes and every attribute store_results reads is a field of the schema.
C30_AsStated ==
    (Ended /\ state.raw_items # <<>>) =>
        /\ pc = "done"
        /\ TrendItemRequired \subseteq TrendItemSupplied
        /\ TrendItemRead \subseteq TrendItemRequired
====
